---- MODULE Spec2Model ----
(***************************************************************************)
(* Ingestion pipeline of the tracking pixel: CollectView.post              *)
(* (tracker/views.py), EventSerializer.create (tracker/serializers.py),    *)
(* and process_event_data (tracker/tasks.py), over the three tables of     *)
(* tracker/models.py.  Every ORM call is one atomic step of a worker;      *)
(* workers interleave between ORM calls.  The Session columns              *)
(* user_external_id, user_email and user_name are the ones                 *)
(* SessionSerializer.Meta.fields and EventSerializer.create use.           *)
(***************************************************************************)
EXTENDS Integers, Sequences, FiniteSets, TLC

\* ------------------------------------------------------------------ bounds
NumWorkers == 2
MaxRequests == 3

Workers == 1..NumWorkers

\* ------------------------------------------------------------------ text values
\* A text value is a sequence of one-character strings; None is a value no
\* text equals; the blank string is the empty sequence.
Null == <<"<None>">>
Blank == << >>

UpperLetters == <<"A", "B", "C", "D", "E", "F", "G", "H", "I", "J", "K", "L", "M",
                  "N", "O", "P", "Q", "R", "S", "T", "U", "V", "W", "X", "Y", "Z">>
LowerLetters == <<"a", "b", "c", "d", "e", "f", "g", "h", "i", "j", "k", "l", "m",
                  "n", "o", "p", "q", "r", "s", "t", "u", "v", "w", "x", "y", "z">>

LowerChar(c) ==
    IF \E i \in DOMAIN UpperLetters : UpperLetters[i] = c
    THEN LowerLetters[CHOOSE i \in DOMAIN UpperLetters : UpperLetters[i] = c]
    ELSE c

\* str.lower()
Lower(s) == [i \in DOMAIN s |-> LowerChar(s[i])]

\* Python truthiness of an Optional[str]: None and "" are falsy.
Truthy(v) == v # Null /\ v # Blank

\* The __iexact lookup: a NULL column matches nothing.
IExact(col, v) == col # Null /\ Lower(col) = Lower(v)

\* The exact lookup (phone=...): a NULL column matches nothing.
Exact(col, v) == col # Null /\ col = v

\* ------------------------------------------------------------------ tables
\* A row's primary key is its index in the table; 0 stands for a NULL
\* foreign key.
NullSession ==
    [session_id |-> Null, client_id |-> Null, site_key |-> Null,
     user_agent |-> Null, device_info |-> Null, ip_address |-> Null,
     location_data |-> Null, first_seen |-> 0, last_seen |-> 0,
     user_external_id |-> Null, user_email |-> Null, user_name |-> Null]

NullLead ==
    [first_name |-> Null, last_name |-> Null, email |-> Null, phone |-> Null,
     property_address |-> Null]

LeadFields == {"first_name", "last_name", "email", "phone", "property_address"}

EVENT_TYPE_CHOICES == {"page_load", "form_submission", "custom_event"}

\* EventSerializer.Meta.fields: the keys of a payload that is_valid() keeps
\* in validated_data; every other top-level key is dropped.
DeclaredFields ==
    {"v", "site_key", "event_id", "event_type", "event_data", "client_id",
     "session_id", "first_name", "last_name", "email", "phone", "property_address"}

\* The keys EventSerializer.create pops from event_data, each with the
\* top-level key that is asked first.
TopOf ==
    [meta_url |-> "url", meta_page_title |-> "page_title",
     meta_referrer |-> "referrer", meta_language |-> "language",
     meta_tz_offset_min |-> "tz_offset_min",
     meta_vw |-> "viewport", meta_vh |-> "viewport",
     meta_sw |-> "screen", meta_sh |-> "screen", meta_dpr |-> "screen",
     meta_client_ts |-> "client_ts",
     utm_source |-> "utm_source", utm_medium |-> "utm_medium",
     utm_campaign |-> "utm_campaign", utm_term |-> "utm_term",
     utm_content |-> "utm_content"]

\* The top-level keys of a payload outside the declared ones, and the keys
\* of its event_data (other: a key create does not know).
TopKeys == {TopOf[k] : k \in DOMAIN TopOf}
DataKeys == DOMAIN TopOf \cup {"other"}

\* A payload without any of them: an absent key reads as None.
NoTop == [f \in TopKeys |-> Null]
NoData == [k \in DataKeys |-> Null]

VARIABLES
    sessions,   \* table tracker_session: sequence of Session rows
    leads,      \* table tracker_lead: sequence of Lead rows
    events,     \* table tracker_event: sequence of Event rows
    now,        \* server clock (timezone.now())
    nreq,       \* requests received so far
    geoip,      \* GEOIP_READER is not None
    pc,         \* per worker: position in CollectView.post
    batch,      \* per worker: the request's payloads (events)
    idx,        \* per worker: index of the payload being processed
    sess,       \* per worker: the in-memory Session instance (session)
    created,    \* per worker: get_or_create's second result
    lead,       \* per worker: the in-memory Lead instance (lead)
    pks,        \* per worker: created_pks still to be enriched
    result,     \* per worker: the response of the last request
    seen,       \* history, per worker: Event rows stored when the request arrived
    conflict    \* history, per worker: get_or_create caught an IntegrityError

vars == <<sessions, leads, events, now, nreq, geoip, pc, batch, idx, sess,
          created, lead, pks, result, seen, conflict>>

dbVars == <<sessions, leads, events>>

NoSession == [pk |-> 0, row |-> NullSession]
NoLead == [pk |-> 0, row |-> NullLead]

\* The payload a worker is processing.
Payload(p) == batch[p][idx[p]]

Init ==
    /\ sessions = << >>
    /\ leads = << >>
    /\ events = << >>
    /\ now = 0
    /\ nreq = 0
    /\ geoip \in BOOLEAN
    /\ pc = [p \in Workers |-> "idle"]
    /\ batch = [p \in Workers |-> << >>]
    /\ idx = [p \in Workers |-> 0]
    /\ sess = [p \in Workers |-> NoSession]
    /\ created = [p \in Workers |-> FALSE]
    /\ lead = [p \in Workers |-> NoLead]
    /\ pks = [p \in Workers |-> << >>]
    /\ result = [p \in Workers |-> "none"]
    /\ seen = [p \in Workers |-> 0]
    /\ conflict = [p \in Workers |-> FALSE]

\* The worker leaves the request with response r; its locals are dropped.
Finish(p, r) ==
    /\ pc' = [pc EXCEPT ![p] = "done"]
    /\ result' = [result EXCEPT ![p] = r]
    /\ sess' = [sess EXCEPT ![p] = NoSession]
    /\ lead' = [lead EXCEPT ![p] = NoLead]
    /\ created' = [created EXCEPT ![p] = FALSE]
    /\ pks' = [pks EXCEPT ![p] = << >>]
    /\ batch' = [batch EXCEPT ![p] = << >>]
    /\ idx' = [idx EXCEPT ![p] = 0]
    /\ seen' = [seen EXCEPT ![p] = 0]
    /\ conflict' = [conflict EXCEPT ![p] = FALSE]

\* ------------------------------------------------------------------ CollectView.post
\* A request arrives at a worker with its list of payloads (events).
Receive(p, b, max) ==
    /\ pc[p] \in {"idle", "done"}
    /\ nreq < max
    /\ nreq' = nreq + 1
    /\ now' = now + 1
    /\ batch' = [batch EXCEPT ![p] = b]
    /\ idx' = [idx EXCEPT ![p] = 1]
    /\ pc' = [pc EXCEPT ![p] = "validate"]
    /\ result' = [result EXCEPT ![p] = "none"]
    /\ sess' = [sess EXCEPT ![p] = NoSession]
    /\ lead' = [lead EXCEPT ![p] = NoLead]
    /\ created' = [created EXCEPT ![p] = FALSE]
    /\ pks' = [pks EXCEPT ![p] = << >>]
    /\ seen' = [seen EXCEPT ![p] = Len(events)]
    /\ conflict' = [conflict EXCEPT ![p] = FALSE]
    /\ UNCHANGED <<dbVars, geoip>>

\* Workers are interchangeable: the first request is taken by worker 1.
Arrive(p, b) == (nreq = 0 => p = 1) /\ Receive(p, <<b>>, MaxRequests)

\* ------------------------------------------------------------------ EventSerializer.create: fields
\* x or y.
OrElse(x, y) == IF Truthy(x) THEN x ELSE y

\* validated_data.pop(f, None): the top-level value when f is declared.
TopLevel(b, f) == IF f \in DeclaredFields THEN b.top[f] ELSE Null

\* Lines 90-116: validated_data.pop(f, None) or event_data.pop(k, None).
Extracted(b, k) == OrElse(TopLevel(b, TopOf[k]), b.event_data[k])

\* Lines 96-98: the object {"w": w, "h": h}, written as the pair <<w, h>>.
Viewport(b) ==
    LET w == Extracted(b, "meta_vw")
        h == Extracted(b, "meta_vh")
    IN  IF w # Null \/ h # Null THEN <<w, h>> ELSE Null

\* Lines 100-103: the object {"w": w, "h": h, "dpr": dpr}, written as the
\* triple <<w, h, dpr>>; dpr is popped in every case, screen is built only
\* when a width or a height is there.
Screen(b) ==
    LET w == Extracted(b, "meta_sw")
        h == Extracted(b, "meta_sh")
        dpr == Extracted(b, "meta_dpr")
    IN  IF w # Null \/ h # Null THEN <<w, h, dpr>> ELSE Null

\* What is left of event_data: a key is popped when the top-level value
\* before it is not truthy.
Residual(b) ==
    [k \in DOMAIN b.event_data |->
        IF k \in DOMAIN TopOf /\ ~Truthy(TopLevel(b, TopOf[k]))
        THEN Null ELSE b.event_data[k]]

\* client_ts_str.replace("Z", "+00:00").
Offset == <<"+", "0", "0", ":", "0", "0">>

RECURSIVE ReplaceZ(_)
ReplaceZ(s) ==
    IF s = << >> THEN << >>
    ELSE (IF Head(s) = "Z" THEN Offset ELSE <<Head(s)>>) \o ReplaceZ(Tail(s))

TsDigits == {"0", "1", "2", "3", "4", "5", "6", "7", "8", "9"}

\* The texts datetime.fromisoformat accepts, in short: the date and time (a
\* run of digits here), then nothing or a UTC offset.
IsoBody(s) ==
    IF Len(s) > Len(Offset) /\ SubSeq(s, Len(s) - Len(Offset) + 1, Len(s)) = Offset
    THEN SubSeq(s, 1, Len(s) - Len(Offset)) ELSE s

IsIso(s) ==
    /\ IsoBody(s) # << >>
    /\ \A i \in DOMAIN IsoBody(s) : IsoBody(s)[i] \in TsDigits

\* The datetime: its date and time, and whether it carries an offset.
FromIsoFormat(s) == <<IsoBody(s), IF IsoBody(s) # s THEN "aware" ELSE "naive">>

\* Line 105.
ClientTsStr(b) == Extracted(b, "meta_client_ts")

\* Line 106 raises ValueError when the text is no ISO date.
ClientTsRaises(b) ==
    Truthy(ClientTsStr(b)) /\ ~IsIso(ReplaceZ(ClientTsStr(b)))

ClientTs(b) ==
    IF Truthy(ClientTsStr(b)) THEN FromIsoFormat(ReplaceZ(ClientTsStr(b))) ELSE Null

\* ser.is_valid(): the declared fields of EventSerializer.
IsValid(b) ==
    /\ b.event_type \in EVENT_TYPE_CHOICES
    /\ Truthy(b.session_id)
    /\ Truthy(b.site_key)

\* One turn of the loop over events: validate, or answer 400; then
\* ser.save() enters create, whose lines 70-131 touch no row: the one thing
\* that can happen there is the ValueError of line 106, which nothing
\* handles.
Validate(p) ==
    /\ pc[p] = "validate"
    /\ IF ~IsValid(Payload(p))
       THEN Finish(p, "400")
       ELSE IF ClientTsRaises(Payload(p))
       THEN Finish(p, "500")
       ELSE /\ pc' = [pc EXCEPT ![p] = "session_get"]
            /\ UNCHANGED <<result, sess, lead, created, pks, batch, idx, seen, conflict>>
    /\ UNCHANGED <<dbVars, now, nreq, geoip>>

\* ------------------------------------------------------------------ EventSerializer.create: Session
\* Primary keys of the Session rows with this session_id.
SessionsWith(sid) == {i \in DOMAIN sessions : sessions[i].session_id = sid}

\* The defaults of get_or_create, with the auto_now_add / auto_now stamps.
NewSession(b) ==
    [session_id |-> b.session_id,
     client_id |-> b.client_id,
     site_key |-> b.site_key,
     user_agent |-> IF Truthy(b.ua) THEN b.ua ELSE Null,
     device_info |-> Null,
     ip_address |-> b.ip,
     location_data |-> Null,
     first_seen |-> now,
     last_seen |-> now,
     user_external_id |-> b.user_external_id,
     user_email |-> b.user_email,
     user_name |-> b.user_name]

\* Session.objects.get_or_create, first half: self.get(session_id=...).
SessionGet(p) ==
    /\ pc[p] = "session_get"
    /\ LET m == SessionsWith(Payload(p).session_id) IN
       IF m = {}
       THEN /\ pc' = [pc EXCEPT ![p] = "session_create"]
            /\ UNCHANGED <<sess, created, seen, conflict>>
       ELSE LET k == CHOOSE i \in m : TRUE IN
            /\ sess' = [sess EXCEPT ![p] = [pk |-> k, row |-> sessions[k]]]
            /\ created' = [created EXCEPT ![p] = FALSE]
            /\ pc' = [pc EXCEPT ![p] = "session_merge"]
            /\ UNCHANGED <<seen, conflict>>
    /\ UNCHANGED <<dbVars, now, nreq, geoip, batch, idx, lead, pks, result>>

\* get_or_create, second half, the row is still missing: self.create(**params).
SessionCreate(p) ==
    /\ pc[p] = "session_create"
    /\ SessionsWith(Payload(p).session_id) = {}
    /\ LET row == NewSession(Payload(p)) IN
       /\ sessions' = Append(sessions, row)
       /\ sess' = [sess EXCEPT ![p] = [pk |-> Len(sessions) + 1, row |-> row]]
    /\ created' = [created EXCEPT ![p] = TRUE]
    /\ pc' = [pc EXCEPT ![p] = "session_merge"]
    /\ UNCHANGED <<seen, conflict>>
    /\ UNCHANGED <<leads, events, now, nreq, geoip, batch, idx, lead, pks, result>>

\* The same step on a table without the unique constraint on session_id.
SessionCreateNoConstraint(p) ==
    /\ pc[p] = "session_create"
    /\ SessionsWith(Payload(p).session_id) # {}
    /\ LET row == NewSession(Payload(p)) IN
       /\ sessions' = Append(sessions, row)
       /\ sess' = [sess EXCEPT ![p] = [pk |-> Len(sessions) + 1, row |-> row]]
    /\ created' = [created EXCEPT ![p] = TRUE]
    /\ conflict' = [conflict EXCEPT ![p] = TRUE]
    /\ pc' = [pc EXCEPT ![p] = "session_merge"]
    /\ UNCHANGED seen
    /\ UNCHANGED <<leads, events, now, nreq, geoip, batch, idx, lead, pks, result>>

\* get_or_create, second half, another worker created the row meanwhile: the
\* INSERT breaks the unique constraint on session_id (IntegrityError) and
\* get_or_create answers with self.get(session_id=...).
SessionCreateConflict(p) ==
    /\ pc[p] = "session_create"
    /\ SessionsWith(Payload(p).session_id) # {}
    /\ LET k == CHOOSE i \in SessionsWith(Payload(p).session_id) : TRUE IN
       sess' = [sess EXCEPT ![p] = [pk |-> k, row |-> sessions[k]]]
    /\ created' = [created EXCEPT ![p] = FALSE]
    /\ conflict' = [conflict EXCEPT ![p] = TRUE]
    /\ pc' = [pc EXCEPT ![p] = "session_merge"]
    /\ UNCHANGED seen
    /\ UNCHANGED <<dbVars, now, nreq, geoip, batch, idx, lead, pks, result>>

\* A merge that lets a later client_id replace the stored one.
MergeClientIdOverwrite(s, b) ==
    IF Truthy(b.client_id)
    THEN [s EXCEPT !.client_id = b.client_id] ELSE s

\* Lines 148-159: the in-memory merge of the beacon into session.
MergeClientId(s, b) ==
    IF Truthy(b.client_id) /\ ~Truthy(s.client_id)
    THEN [s EXCEPT !.client_id = b.client_id] ELSE s

MergeSiteKey(s, b) ==
    IF Truthy(b.site_key) /\ ~Truthy(s.site_key)
    THEN [s EXCEPT !.site_key = b.site_key] ELSE s

MergeUserAgent(s, b) ==
    IF Truthy(b.ua) /\ ~Truthy(s.user_agent)
    THEN [s EXCEPT !.user_agent = b.ua] ELSE s

MergeIp(s, b) ==
    IF Truthy(b.ip) /\ ~Truthy(s.ip_address)
    THEN [s EXCEPT !.ip_address = b.ip] ELSE s

MergeExternalId(s, b) ==
    IF Truthy(b.user_external_id) /\ ~Truthy(s.user_external_id)
    THEN [s EXCEPT !.user_external_id = b.user_external_id] ELSE s

\* The overwrite without the case normalisation.
MergeUserEmailAsGiven(s, b) ==
    IF Truthy(b.user_email) /\ b.user_email # s.user_email
    THEN [s EXCEPT !.user_email = b.user_email] ELSE s

MergeUserEmail(s, b) ==
    IF Truthy(b.user_email) /\ b.user_email # s.user_email
    THEN [s EXCEPT !.user_email = Lower(b.user_email)] ELSE s

MergeUserName(s, b) ==
    IF Truthy(b.user_name) /\ ~Truthy(s.user_name)
    THEN [s EXCEPT !.user_name = b.user_name] ELSE s

MergeSession(s, b) ==
    MergeUserName(MergeUserEmail(MergeExternalId(MergeIp(MergeUserAgent(
        MergeSiteKey(MergeClientId(s, b), b), b), b), b), b), b)

\* The flag changed: some branch of lines 149-159 was taken.
SessionChanged(s, b) ==
    \/ Truthy(b.client_id) /\ ~Truthy(s.client_id)
    \/ Truthy(b.site_key) /\ ~Truthy(s.site_key)
    \/ Truthy(b.ua) /\ ~Truthy(s.user_agent)
    \/ Truthy(b.ip) /\ ~Truthy(s.ip_address)
    \/ Truthy(b.user_external_id) /\ ~Truthy(s.user_external_id)
    \/ Truthy(b.user_email) /\ b.user_email # s.user_email
    \/ Truthy(b.user_name) /\ ~Truthy(s.user_name)

\* A save that stamps first_seen like last_seen.
SavedSessionStampsBoth(s) == [s EXCEPT !.last_seen = now, !.first_seen = now]

\* Model.save() of a Session: every column is written from the instance,
\* last_seen (auto_now) is stamped with the clock.
SavedSession(s) == [s EXCEPT !.last_seen = now]

\* cleaned_lead_data: the lead hints that are truthy.
Cleaned(b) == {f \in LeadFields : Truthy(b[f])}

\* A filter that is never empty.
HasLeadFilterAlways(b) == TRUE

\* bool(lead_filter): some Q was or-ed into the filter.
HasLeadFilter(b) ==
    \/ "email" \in Cleaned(b)
    \/ "phone" \in Cleaned(b)
    \/ "property_address" \in Cleaned(b)
    \/ {"first_name", "last_name"} \subseteq Cleaned(b)

\* Lines 148-160 and the branch of lines 165-172.
SessionMerge(p) ==
    /\ pc[p] = "session_merge"
    /\ LET b == Payload(p)
           s == sess[p].row
       IN  IF SessionChanged(s, b)
           THEN LET t == SavedSession(MergeSession(s, b)) IN
                /\ sessions' = [sessions EXCEPT ![sess[p].pk] = t]
                /\ sess' = [sess EXCEPT ![p].row = t]
           ELSE UNCHANGED <<sessions, sess>>
    /\ pc' = [pc EXCEPT ![p] =
                IF HasLeadFilter(Payload(p)) THEN "lead_get" ELSE "event_create"]
    /\ UNCHANGED <<leads, events, now, nreq, geoip, batch, idx, created, lead,
                   pks, result, seen, conflict>>

\* ------------------------------------------------------------------ EventSerializer.create: Lead
\* lead_filter applied to one Lead row (lines 166-170).
LeadMatches(b, l) ==
    \/ "email" \in Cleaned(b) /\ IExact(l.email, b.email)
    \/ "phone" \in Cleaned(b) /\ Exact(l.phone, b.phone)
    \/ IF "property_address" \in Cleaned(b)
       THEN IExact(l.property_address, b.property_address)
       ELSE /\ {"first_name", "last_name"} \subseteq Cleaned(b)
            /\ IExact(l.first_name, b.first_name)
            /\ IExact(l.last_name, b.last_name)

MatchingLeads(b) == {i \in DOMAIN leads : LeadMatches(b, leads[i])}

\* Lines 175-176: setattr(lead, k, v) for every cleaned hint.
SetHints(l, b) == [f \in LeadFields |-> IF f \in Cleaned(b) THEN b[f] ELSE l[f]]

\* Lead(**cleaned_lead_data): the hints that are not given stay NULL.
NewLead(b) == SetHints(NullLead, b)

\* The unique constraints of Lead.email and Lead.phone (exact comparison,
\* NULLs never collide) for row l stored under primary key k.
LeadUniqueOk(l, k) ==
    \A i \in DOMAIN leads :
        i # k => /\ ~(l.email # Null /\ leads[i].email = l.email)
                 /\ ~(l.phone # Null /\ leads[i].phone = l.phone)

\* Line 174: Lead.objects.get(lead_filter).  One match is loaded and the
\* hints are set on it; none raises DoesNotExist (handled at line 178);
\* several raise MultipleObjectsReturned, which nothing handles.
LeadGet(p) ==
    /\ pc[p] = "lead_get"
    /\ LET m == MatchingLeads(Payload(p)) IN
       CASE Cardinality(m) = 0 ->
              /\ pc' = [pc EXCEPT ![p] = "lead_create"]
              /\ UNCHANGED <<lead, result, sess, created, pks, batch, idx, seen, conflict>>
         [] Cardinality(m) = 1 ->
              LET k == CHOOSE i \in m : TRUE IN
              /\ lead' = [lead EXCEPT ![p] =
                            [pk |-> k, row |-> SetHints(leads[k], Payload(p))]]
              /\ pc' = [pc EXCEPT ![p] = "lead_save"]
              /\ UNCHANGED <<result, sess, created, pks, batch, idx, seen, conflict>>
         [] OTHER -> Finish(p, "500")
    /\ UNCHANGED <<dbVars, now, nreq, geoip>>

\* Line 177: lead.save() writes every column of the instance; a broken
\* unique constraint raises IntegrityError, which nothing handles.
LeadSave(p) ==
    /\ pc[p] = "lead_save"
    /\ IF LeadUniqueOk(lead[p].row, lead[p].pk)
       THEN /\ leads' = [leads EXCEPT ![lead[p].pk] = lead[p].row]
            /\ pc' = [pc EXCEPT ![p] = "event_create"]
            /\ UNCHANGED <<result, sess, lead, created, pks, batch, idx, seen, conflict>>
       ELSE /\ Finish(p, "500")
            /\ UNCHANGED leads
    /\ UNCHANGED <<sessions, events, now, nreq, geoip>>

\* Line 179: Lead.objects.create(**cleaned_lead_data) inside the except
\* handler; an IntegrityError raised here is not handled.
LeadCreate(p) ==
    /\ pc[p] = "lead_create"
    /\ LET l == NewLead(Payload(p)) IN
       IF LeadUniqueOk(l, 0)
       THEN /\ leads' = Append(leads, l)
            /\ lead' = [lead EXCEPT ![p] = [pk |-> Len(leads) + 1, row |-> l]]
            /\ pc' = [pc EXCEPT ![p] = "event_create"]
            /\ UNCHANGED <<result, sess, created, pks, batch, idx, seen, conflict>>
       ELSE /\ Finish(p, "500")
            /\ UNCHANGED leads
    /\ UNCHANGED <<sessions, events, now, nreq, geoip>>

\* ------------------------------------------------------------------ EventSerializer.create: Event
\* The keyword arguments of Event.objects.create (lines 181-202);
\* event_type is popped at line 75 and not among them, the column keeps
\* the default of a CharField.
NewEvent(p) ==
    [event_id |-> Payload(p).event_id,
     schema_version |-> Payload(p).v,
     site_key |-> Payload(p).site_key,
     event_type |-> Blank,
     session |-> sess[p].pk,
     lead |-> lead[p].pk,
     url |-> Extracted(Payload(p), "meta_url"),
     page_title |-> Extracted(Payload(p), "meta_page_title"),
     referrer |-> Extracted(Payload(p), "meta_referrer"),
     language |-> Extracted(Payload(p), "meta_language"),
     tz_offset_min |-> Extracted(Payload(p), "meta_tz_offset_min"),
     viewport |-> Viewport(Payload(p)),
     screen |-> Screen(Payload(p)),
     utm_source |-> Extracted(Payload(p), "utm_source"),
     utm_medium |-> Extracted(Payload(p), "utm_medium"),
     utm_campaign |-> Extracted(Payload(p), "utm_campaign"),
     utm_term |-> Extracted(Payload(p), "utm_term"),
     utm_content |-> Extracted(Payload(p), "utm_content"),
     client_ts |-> ClientTs(Payload(p)),
     event_data |-> Residual(Payload(p))]

EventsWith(eid) == {i \in DOMAIN events : events[i].event_id = eid}

\* Lines 181-203: Event.objects.create(...); a second row with the same
\* event_id breaks the unique constraint (IntegrityError, not handled).  On
\* success the loop of CollectView.post goes on with the next payload, or
\* with the enrichment of created_pks.
EventCreate(p) ==
    /\ pc[p] = "event_create"
    /\ IF EventsWith(Payload(p).event_id) = {}
       THEN /\ events' = Append(events, NewEvent(p))
            /\ pks' = [pks EXCEPT ![p] = Append(pks[p], Len(events) + 1)]
            /\ sess' = [sess EXCEPT ![p] = NoSession]
            /\ lead' = [lead EXCEPT ![p] = NoLead]
            /\ created' = [created EXCEPT ![p] = FALSE]
            /\ IF idx[p] < Len(batch[p])
               THEN /\ idx' = [idx EXCEPT ![p] = idx[p] + 1]
                    /\ pc' = [pc EXCEPT ![p] = "validate"]
               ELSE /\ pc' = [pc EXCEPT ![p] = "enrich_lead"]
                    /\ UNCHANGED idx
            /\ UNCHANGED <<result, batch, seen, conflict>>
       ELSE /\ Finish(p, "500")
            /\ UNCHANGED events
    /\ UNCHANGED <<sessions, leads, now, nreq, geoip>>

\* ------------------------------------------------------------------ process_event_data
Loopback == <<"1", "2", "7", ".", "0", ".", "0", ".", "1">>

\* extract_ip_from_device_info on the device_info the serializer stores:
\* device_info is no field of EventSerializer, so every Session has
\* device_info None and the function takes its fallback.
ExtractIp(d) == Loopback

\* canonicalize_address: returns the address as it is.
CanonicalizeAddress(a) == a

\* json.dumps(geo_data): the lookup's answer and the IP it was made for.
GeoData(ip) == <<"country", "city", "latitude", "longitude", ip>>

\* Lines 59-62: the Lead of the event is loaded; when it has a
\* property_address the address is canonicalized on the loaded instance.
\* The _canonicalized_address mark lives on an instance only, so a freshly
\* loaded Lead never carries it.
EnrichLead(p) ==
    /\ pc[p] = "enrich_lead"
    /\ LET e == events[Head(pks[p])] IN
       IF e.lead # 0 /\ Truthy(leads[e.lead].property_address)
       THEN /\ lead' = [lead EXCEPT ![p] =
                          [pk |-> e.lead,
                           row |-> [leads[e.lead] EXCEPT !.property_address =
                                       CanonicalizeAddress(leads[e.lead].property_address)]]]
            /\ pc' = [pc EXCEPT ![p] = "enrich_lead_save"]
       ELSE /\ pc' = [pc EXCEPT ![p] = "enrich_geo"]
            /\ UNCHANGED lead
    /\ UNCHANGED <<sessions, leads, events, now, nreq, geoip, batch, idx, sess,
                   created, pks, result, seen, conflict>>

\* The caller's answer when process_event_data returns or raises: a request
\* of CollectView.post has its batch, a task run by the queue has none.
Answer(p, r) == IF batch[p] = << >> THEN "task" ELSE r

\* Lines 63-65: event.lead.save(update_fields=['property_address']) writes
\* the address column of the Lead row.  The save is outside every try block:
\* when the storage refuses it (ok is FALSE) the exception leaves
\* process_event_data and, with it, CollectView.post.
EnrichLeadSave(p, ok) ==
    /\ pc[p] = "enrich_lead_save"
    /\ IF ok
       THEN /\ leads' = [leads EXCEPT ![lead[p].pk].property_address =
                            lead[p].row.property_address]
            /\ lead' = [lead EXCEPT ![p] = NoLead]
            /\ pc' = [pc EXCEPT ![p] = "enrich_geo"]
            /\ UNCHANGED <<result, sess, created, batch, idx, pks, seen, conflict>>
       ELSE /\ UNCHANGED leads
            /\ Finish(p, Answer(p, "500"))
    /\ UNCHANGED <<sessions, events, now, nreq, geoip>>

\* A geo step that does not ask whether location_data is there already.
NeedsGeoAlways(s) == geoip /\ Truthy(ExtractIp(s.device_info))

\* Lines 72-73: the geo step is taken when the Session of the event has no
\* location_data, the reader is loaded and extract_ip_from_device_info gives
\* an address; event.session stays loaded for the lookup.  Otherwise the
\* task is over, and after the last created event CollectView.post answers
\* 204.
NeedsGeo(s) ==
    ~Truthy(s.location_data) /\ geoip /\ Truthy(ExtractIp(s.device_info))

EnrichGeo(p) ==
    /\ pc[p] = "enrich_geo"
    /\ LET e == events[Head(pks[p])] IN
       IF NeedsGeo(sessions[e.session])
       THEN /\ sess' = [sess EXCEPT ![p] = [pk |-> e.session, row |-> sessions[e.session]]]
            /\ pc' = [pc EXCEPT ![p] = "geo_lookup"]
            /\ UNCHANGED <<result, lead, created, batch, idx, pks, seen, conflict>>
       ELSE IF Len(pks[p]) > 1
       THEN /\ pks' = [pks EXCEPT ![p] = Tail(pks[p])]
            /\ pc' = [pc EXCEPT ![p] = "enrich_lead"]
            /\ UNCHANGED <<result, sess, lead, created, batch, idx, seen, conflict>>
       ELSE Finish(p, Answer(p, "204"))
    /\ UNCHANGED <<sessions, leads, events, now, nreq, geoip>>

\* Lines 76-89: GEOIP_READER.city(client_ip) answers (ok) and the answer is
\* written to the Session (update_fields=['location_data']), or it raises
\* and the except of line 88 leaves the Session as it is.
GeoLookup(p, ok) ==
    /\ pc[p] = "geo_lookup"
    /\ IF ok
       THEN sessions' = [sessions EXCEPT ![sess[p].pk].location_data =
                            GeoData(ExtractIp(sess[p].row.device_info))]
       ELSE UNCHANGED sessions
    /\ IF Len(pks[p]) > 1
       THEN /\ pks' = [pks EXCEPT ![p] = Tail(pks[p])]
            /\ pc' = [pc EXCEPT ![p] = "enrich_lead"]
            /\ sess' = [sess EXCEPT ![p] = NoSession]
            /\ UNCHANGED <<result, lead, created, batch, idx, seen, conflict>>
       ELSE Finish(p, Answer(p, "204"))
    /\ UNCHANGED <<leads, events, now, nreq, geoip>>

\* ------------------------------------------------------------------ inputs
SiteKey == <<"k">>
UserAgent == <<"u">>
ClientIp == <<"9">>

\* A beacon with nothing but the required fields; the request's network
\* context (ua, ip) travels with it.
BaseBeacon ==
    [v |-> 1, site_key |-> SiteKey, event_id |-> 1, event_type |-> "page_load",
     session_id |-> <<"s", "1">>, client_id |-> Null,
     user_external_id |-> Null, user_email |-> Null, user_name |-> Null,
     first_name |-> Null, last_name |-> Null, email |-> Null, phone |-> Null,
     property_address |-> Null,
     top |-> NoTop, event_data |-> NoData,
     ua |-> UserAgent, ip |-> ClientIp]

With(b, f, v) == [b EXCEPT ![f] = v]

\* The steps of a worker that is inside a request whose Lead, if it has
\* one, has no property_address: line 63 is not reached.
StepNoAddress(p) ==
    \/ Validate(p)
    \/ SessionGet(p)
    \/ SessionCreate(p)
    \/ SessionCreateConflict(p)
    \/ SessionMerge(p)
    \/ LeadGet(p)
    \/ LeadSave(p)
    \/ LeadCreate(p)
    \/ EventCreate(p)
    \/ EnrichLead(p)
    \/ EnrichGeo(p)
    \/ \E ok \in BOOLEAN : GeoLookup(p, ok)

\* The steps of a worker that is inside a request.
Step(p) ==
    \/ StepNoAddress(p)
    \/ \E ok \in BOOLEAN : EnrichLeadSave(p, ok)

\* ------------------------------------------------------------------ specifications
MaxEventIds == 2

EmailA == <<"a", "@", "x">>
EmailACaps == <<"A", "@", "X">>
EmailB == <<"B", "@", "X">>

\* Beacons of retried and new events, with or without a lead hint, valid or not.
Beacons ==
    {[BaseBeacon EXCEPT !.event_id = e, !.event_type = t, !.email = m,
                        !.client_id = c] :
        e \in 1..MaxEventIds, t \in {"page_load", "bogus"},
        m \in {Null, EmailA}, c \in {Null, <<"c">>}}

Next ==
    \/ \E p \in Workers : \E b \in Beacons : Arrive(p, b)
    \/ \E p \in Workers : StepNoAddress(p)

Spec == Init /\ [][Next]_vars

\* Beacons of sessions: at most one identity hint of the embedding site each,
\* no lead hint; every beacon carries a fresh event_id.
SessionBeacons ==
    {BaseBeacon, With(BaseBeacon, "session_id", <<"s", "2">>)}
    \cup {With(BaseBeacon, "client_id", <<"c">>)}
    \cup {With(BaseBeacon, "user_email", m) : m \in {EmailA, EmailB}}
    \cup {With(BaseBeacon, "user_name", n) : n \in {<<"N">>, <<"M">>}}

Fresh(b) == [b EXCEPT !.event_id = nreq + 1]

\* No session beacon carries a lead hint: the steps of lines 173-179 are not
\* taken.
StepSession(p) ==
    \/ Validate(p)
    \/ SessionGet(p)
    \/ SessionCreate(p)
    \/ SessionCreateConflict(p)
    \/ SessionMerge(p)
    \/ EventCreate(p)
    \/ EnrichLead(p)
    \/ EnrichGeo(p)
    \/ \E ok \in BOOLEAN : GeoLookup(p, ok)

NextSession ==
    \/ \E p \in Workers : \E b \in SessionBeacons : Arrive(p, Fresh(b))
    \/ \E p \in Workers : StepSession(p)

SpecSession == Init /\ [][NextSession]_vars

\* Beacons of leads: lead hints on one session; every beacon carries a fresh
\* event_id.
LeadBeacons ==
    {With(BaseBeacon, "email", m) : m \in {EmailA, EmailACaps}}
    \cup {[BaseBeacon EXCEPT !.email = m, !.phone = <<"1">>] : m \in {Blank, EmailA}}
    \cup {[BaseBeacon EXCEPT !.email = EmailA, !.first_name = n] :
            n \in {<<"A">>, <<"B">>}}
    \cup {With(BaseBeacon, "property_address", <<"m">>)}

NextLead ==
    \/ \E p \in Workers : \E b \in LeadBeacons : Arrive(p, Fresh(b))
    \/ \E p \in Workers : Step(p)

SpecLead == Init /\ [][NextLead]_vars

\* One request at a time: a request arrives when no worker is inside one.
Quiet == \A q \in Workers : pc[q] \in {"idle", "done"}

SerialBeacons ==
    {[BaseBeacon EXCEPT !.client_id = c, !.user_email = m, !.user_name = n] :
        c \in {Null, <<"c">>}, m \in {Null, EmailA, EmailB},
        n \in {Null, <<"N">>, <<"M">>}}

StepSerial(p) ==
    \/ Validate(p)
    \/ SessionGet(p)
    \/ SessionCreate(p)
    \/ SessionMerge(p)
    \/ EventCreate(p)
    \/ EnrichLead(p)
    \/ EnrichGeo(p)
    \/ \E ok \in BOOLEAN : GeoLookup(p, ok)

NextSerial ==
    \/ \E p \in Workers : \E b \in SerialBeacons :
          Quiet /\ Arrive(p, Fresh(b))
    \/ \E p \in Workers : StepSerial(p)

SpecSerial == Init /\ [][NextSerial]_vars

\* ------------------------------------------------------------------ claims
\* The worker p takes a step out of position l.
Leaves(p, l) == pc[p] = l /\ pc'[p] # l

\* C1: a beacon whose event_id was already stored when it was submitted
\* leaves exactly one Event row with that event_id and is answered as a
\* success, not as an error.
C1_DuplicateIsSuccess ==
    [][\A p \in Workers :
          (/\ Leaves(p, "event_create")
           /\ \E i \in 1..seen[p] : events[i].event_id = Payload(p).event_id)
          => /\ Cardinality({i \in DOMAIN events' :
                                events'[i].event_id = Payload(p).event_id}) = 1
             /\ result'[p] # "500"]_vars

\* C2: at most one Session row per session_id; a stored Event references
\* the row of its beacon's session_id; a row's first_seen never changes and
\* its last_seen never decreases.
SessionIdUnique ==
    \A i, j \in DOMAIN sessions :
        sessions[i].session_id = sessions[j].session_id => i = j

C2_SessionStable ==
    [][/\ SessionIdUnique'
       /\ \A i \in DOMAIN sessions :
             /\ i \in DOMAIN sessions'
             /\ sessions'[i].session_id = sessions[i].session_id
             /\ sessions'[i].first_seen = sessions[i].first_seen
             /\ sessions'[i].last_seen >= sessions[i].last_seen
       /\ \A p \in Workers :
             (Leaves(p, "event_create") /\ Len(events') = Len(events) + 1)
             => LET e == events'[Len(events')] IN
                /\ e.session \in DOMAIN sessions'
                /\ sessions'[e.session].session_id = Payload(p).session_id]_vars

\* Two Events on one Session whose last_seen has moved past its first_seen,
\* beside a second Session.
C2_Witness ==
    /\ Len(sessions) = 2
    /\ \E i \in DOMAIN sessions :
          /\ sessions[i].last_seen > sessions[i].first_seen
          /\ Cardinality({e \in DOMAIN events : events[e].session = i}) >= 2

\* C3: concurrent beacons for one new session_id never produce two Session
\* rows; the creator that loses on the unique constraint goes on with the
\* stored row, as a find, and the Events of both are bound to that row.
C3_ConcurrentCreate ==
    [][\A p \in Workers :
          LET sid == Payload(p).session_id
              rows == {i \in DOMAIN sessions' : sessions'[i].session_id = sid}
          IN  /\ Leaves(p, "session_create")
                 => /\ rows = {sess'[p].pk}
                    /\ SessionsWith(sid) # {}
                       => /\ ~created'[p]
                          /\ sessions' = sessions
                          /\ sess'[p].row = sessions[sess'[p].pk]
              /\ (Leaves(p, "event_create") /\ Len(events') = Len(events) + 1)
                 => rows = {events'[Len(events')].session}]_vars

\* The loser of the race has stored its Event on the one Session row, which
\* holds the winner's Event too.
C3_Witness ==
    \E p \in Workers :
        /\ conflict[p]
        /\ pc[p] = "enrich_lead"
        /\ Len(sessions) = 1
        /\ Len(events) = 2
        /\ \A e \in DOMAIN events : events[e].session = 1

\* C4: every accepted beacon for an existing session_id sets that Session's
\* last_seen to the current server time, also when it changes no other field.
C4_TouchStampsLastSeen ==
    [][\A p \in Workers :
          (Leaves(p, "session_merge") /\ ~created[p] /\ ~conflict[p])
          => sessions'[sess[p].pk].last_seen = now]_vars

C5_EmailWins ==
    [][\A p \in Workers :
          LET b == Payload(p)
              A == {i \in DOMAIN leads : IExact(leads[i].email, b.email)}
              B == {i \in DOMAIN leads : Exact(leads[i].phone, b.phone)}
          IN  (/\ Leaves(p, "lead_get")
               /\ {"email", "phone"} \subseteq Cleaned(b)
               /\ A # {} /\ B # {} /\ A \cap B = {})
              => /\ result'[p] # "500"
                 /\ lead'[p].pk \in A
                 /\ \A i \in B : lead'[p].pk # i /\ leads'[i] = leads[i]]_vars

\* C6: a Lead field that is set keeps its stored value whatever a matching
\* beacon supplies, and a Lead field that is null is filled from the beacon.
C6_FillMissingOnly ==
    [][/\ \A i \in DOMAIN leads : \A f \in LeadFields :
             Truthy(leads[i][f]) => leads'[i][f] = leads[i][f]
       /\ \A p \in Workers :
             (Leaves(p, "lead_save") /\ result'[p] # "500")
             => \A f \in Cleaned(Payload(p)) :
                   ~Truthy(leads[lead[p].pk][f])
                   => leads'[lead[p].pk][f] = Payload(p)[f]]_vars

\* C7: when more than one Lead satisfies the beacon's matching predicate the
\* resolver answers with one of them and raises no error.
C7_AmbiguousNeverFails ==
    [][\A p \in Workers :
          (Leaves(p, "lead_get") /\ Cardinality(MatchingLeads(Payload(p))) > 1)
          => /\ result'[p] # "500"
             /\ lead'[p].pk \in MatchingLeads(Payload(p))]_vars

\* C8: no two Lead rows have the same non-null email compared
\* case-insensitively, and no two have the same non-null phone.
C8_LeadUnique ==
    \A i, j \in DOMAIN leads :
        i # j => /\ ~(leads[i].email # Null /\ IExact(leads[j].email, leads[i].email))
                 /\ ~(leads[i].phone # Null /\ Exact(leads[j].phone, leads[i].phone))

\* C9: a beacon that loses the race to create the Lead of a new email or
\* phone re-queries and goes on with the stored Lead; no conflict error
\* reaches the caller.
C9_LeadCreateRace ==
    [][\A p \in Workers :
          LET l == NewLead(Payload(p)) IN
          (Leaves(p, "lead_create") /\ ~LeadUniqueOk(l, 0))
          => /\ result'[p] # "500"
             /\ lead'[p].pk \in {i \in DOMAIN leads :
                                    \/ Exact(leads[i].email, l.email)
                                    \/ Exact(leads[i].phone, l.phone)}]_vars

\* C11: in every reachable state the user_email stored on a Session is null
\* or lower-cased, whether it was stored when the Session was created or
\* written by a later beacon.
C11_SessionEmailLower ==
    \A i \in DOMAIN sessions :
        sessions[i].user_email = Null
        \/ sessions[i].user_email = Lower(sessions[i].user_email)

\* ------------------------------------------------------------------ enrichment runs
\* process_event_data run by the queue for the stored Event k, once more or
\* for the first time: the task starts at line 48 with the Event's pk.
RunTask(p, k, max) ==
    /\ pc[p] \in {"idle", "done"}
    /\ nreq < max
    /\ k \in DOMAIN events
    /\ nreq' = nreq + 1
    /\ now' = now + 1
    /\ pc' = [pc EXCEPT ![p] = "enrich_lead"]
    /\ pks' = [pks EXCEPT ![p] = <<k>>]
    /\ result' = [result EXCEPT ![p] = "none"]
    /\ batch' = [batch EXCEPT ![p] = << >>]
    /\ idx' = [idx EXCEPT ![p] = 0]
    /\ seen' = [seen EXCEPT ![p] = Len(events)]
    /\ UNCHANGED <<sessions, leads, events, geoip, sess, lead, created, conflict>>

\* Beacons with and without a property address, one of a request without
\* client address, and runs of the task for the Events they stored.
EnrichBeacons ==
    {BaseBeacon, With(BaseBeacon, "property_address", <<"m">>),
     With(BaseBeacon, "ip", Null)}

NextEnrich ==
    \/ \E p \in Workers : \E b \in EnrichBeacons : Arrive(p, Fresh(b))
    \/ \E p \in Workers : \E k \in 1..MaxRequests : RunTask(p, k, MaxRequests)
    \/ \E p \in Workers : Step(p)

SpecEnrich == Init /\ [][NextEnrich]_vars

\* The Event k needs no enrichment: its Lead's address is canonicalized and
\* its Session has location_data.
Enriched(k) ==
    /\ events[k].lead # 0
    /\ Truthy(leads[events[k].lead].property_address)
    /\ leads[events[k].lead].property_address =
          CanonicalizeAddress(leads[events[k].lead].property_address)
    /\ Truthy(sessions[events[k].session].location_data)

EnrichLabels == {"enrich_lead", "enrich_lead_save", "enrich_geo", "geo_lookup"}

\* C12: a run of the enrichment for an Event whose Lead address is already
\* canonicalized and whose Session already has location_data performs no
\* write to a Lead, Session or Event row (so a second run right after the
\* first writes nothing).
C12_EnrichmentIdempotent ==
    [][\A p \in Workers :
          (/\ pc[p] \in EnrichLabels
           /\ pc'[p] # pc[p]
           /\ Enriched(Head(pks[p])))
          => /\ ~(pc[p] = "enrich_lead_save" /\ pc'[p] = "enrich_geo")
             /\ UNCHANGED <<sessions, leads, events>>]_vars

\* ------------------------------------------------------------------ batches
MaxBatch == 3

\* The items of a batch: a valid beacon and one with an event_type outside
\* EVENT_TYPE_CHOICES.
BatchItems == {BaseBeacon, With(BaseBeacon, "event_type", "bogus")}

Batches == UNION {[1..n -> BatchItems] : n \in 1..MaxBatch}

\* Every item of every batch carries an event_id of its own.
FreshBatch(bs) ==
    [i \in DOMAIN bs |-> [bs[i] EXCEPT !.event_id = MaxBatch * nreq + i]]

\* Line 59: a request whose body is a list of payloads, one request at a time.
ArriveBatch(p, bs) ==
    (nreq = 0 => p = 1) /\ Quiet /\ Receive(p, FreshBatch(bs), MaxRequests)

NextBatch ==
    \/ \E p \in Workers : \E bs \in Batches : ArriveBatch(p, bs)
    \/ \E p \in Workers : StepSerial(p)

SpecBatch == Init /\ [][NextBatch]_vars

BatchIds(bs) == {bs[i].event_id : i \in DOMAIN bs}
ValidIds(bs) == {bs[i].event_id : i \in {j \in DOMAIN bs : IsValid(bs[j])}}

\* The worker p answers its request in this step.
Answers(p) == pc[p] \notin {"idle", "done"} /\ pc'[p] = "done" /\ batch[p] # << >>

\* C13: when a batch with an invalid item has been answered, either the
\* Events of all its valid items are stored (the invalid item alone is
\* rejected) or no Event of the batch is stored (the batch is rejected as a
\* whole); for a batch of three whose item 2 is invalid: Events for items 1
\* and 3, or none.
C13_BatchPartialValidity ==
    [][\A p \in Workers :
          (Answers(p) /\ ValidIds(batch[p]) # BatchIds(batch[p]))
          => LET stored == {events'[k].event_id : k \in DOMAIN events'}
                              \cap BatchIds(batch[p])
             IN  stored = ValidIds(batch[p]) \/ stored = {}]_vars

\* C14: the enrichment is started exactly once for every Event row the
\* collect endpoint created, every created item of a batch included, and
\* for no other row: the rows handed to the enrichment are the rows of the
\* request's items, and no request is answered while a row it created
\* still waits for its enrichment.
C14_EnrichEveryCreated ==
    [][\A p \in Workers :
          /\ (pc[p] = "event_create" /\ pc'[p] = "enrich_lead")
             => /\ Len(pks'[p]) = Len(batch[p])
                /\ {events'[pks'[p][i]].event_id : i \in DOMAIN pks'[p]}
                      = BatchIds(batch[p])
          /\ (Answers(p) /\ pc[p] \notin EnrichLabels) => pks[p] = << >>]_vars

\* C15: the enrichment never blocks the ingestion: the response of a request
\* is produced once its Events are written, without waiting for their
\* enrichment, so whenever a request's Event is being enriched the request
\* has its answer already.
C15_EnrichmentDoesNotBlock ==
    \A p \in Workers :
        (pc[p] \in EnrichLabels /\ batch[p] # << >>) => result[p] # "none"

\* C16: a failure of an enrichment step (the canonicalization or its save,
\* the geo lookup or its save) never reaches the ingestion caller: a request
\* that got as far as the enrichment is answered as a success and its Events
\* stay stored.
C16_EnrichmentFailureContained ==
    [][\A p \in Workers :
          (Answers(p) /\ pc[p] \in EnrichLabels)
          => /\ result'[p] = "204"
             /\ events' = events]_vars

\* C17: with an email in the beacon the Lead is resolved on the email alone:
\* a Lead with that email is the one returned, and when no Lead has that
\* email a new Lead is created, a Lead that matches only the beacon's phone
\* or address being neither returned nor modified.
C17_EmailPrecedence ==
    [][\A p \in Workers :
          (Leaves(p, "lead_get") /\ "email" \in Cleaned(Payload(p)))
          => LET byEmail == {i \in DOMAIN leads :
                                IExact(leads[i].email, Payload(p).email)}
             IN  IF byEmail = {}
                 THEN pc'[p] = "lead_create"
                 ELSE pc'[p] = "lead_save" /\ lead'[p].pk \in byEmail]_vars

\* ------------------------------------------------------------------ names and addresses
\* Beacons without email and phone: a name, the name in another case, an
\* address, and the name with an address.
NameBeacons ==
    {[BaseBeacon EXCEPT !.first_name = f, !.last_name = <<"L">>] :
        f \in {<<"A">>, <<"a">>}}
    \cup {With(BaseBeacon, "property_address", <<"m">>)}
    \cup {[BaseBeacon EXCEPT !.first_name = <<"A">>, !.last_name = <<"L">>,
                             !.property_address = <<"m">>]}

NextName ==
    \/ \E p \in Workers : \E b \in NameBeacons : Arrive(p, Fresh(b))
    \/ \E p \in Workers : Step(p)

SpecName == Init /\ [][NextName]_vars

\* The Leads the address-or-name rule matches for the beacon b.
ByAddressOrName(b) ==
    {i \in DOMAIN leads :
        \/ /\ "property_address" \in Cleaned(b)
           /\ IExact(leads[i].property_address, b.property_address)
        \/ /\ {"first_name", "last_name"} \subseteq Cleaned(b)
           /\ IExact(leads[i].first_name, b.first_name)
           /\ IExact(leads[i].last_name, b.last_name)}

\* C18: a beacon with neither email nor phone matches a Lead whose address
\* equals its address or whose first and last name equal its names (case
\* ignored): when exactly one Lead matches, by the address or by the names,
\* the beacon resolves to that Lead and creates none; so does a beacon whose
\* address matches no Lead and whose names match one.
C18_AddressOrName ==
    [][\A p \in Workers :
          (/\ Leaves(p, "lead_get")
           /\ "email" \notin Cleaned(Payload(p))
           /\ "phone" \notin Cleaned(Payload(p))
           /\ Cardinality(ByAddressOrName(Payload(p))) = 1)
          => /\ pc'[p] = "lead_save"
             /\ lead'[p].pk \in ByAddressOrName(Payload(p))]_vars

\* ------------------------------------------------------------------ emails and phones
Digits == {"0", "1", "2", "3", "4", "5", "6", "7", "8", "9"}
IsDigit(c) == c \in Digits
DigitsOf(s) == SelectSeq(s, IsDigit)

\* Beacons with an email in capitals, a phone in digits and the same phone
\* written with a dash.
PhoneBeacons ==
    {With(BaseBeacon, "email", EmailACaps)}
    \cup {With(BaseBeacon, "phone", n) : n \in {<<"1", "2">>, <<"1", "-", "2">>}}

NextPhone ==
    \/ \E p \in Workers : \E b \in PhoneBeacons : Arrive(p, Fresh(b))
    \/ \E p \in Workers : StepNoAddress(p)

SpecPhone == Init /\ [][NextPhone]_vars

\* C19: every email stored on a Lead is lower-cased and every phone stored
\* on a Lead consists of digits only; a phone hint that differs from a
\* stored phone in non-digit characters only matches that Lead.
C19_LeadCanonical ==
    [][/\ \A i \in DOMAIN leads' :
             /\ leads'[i].email = Null \/ leads'[i].email = Lower(leads'[i].email)
             /\ leads'[i].phone = Null \/ leads'[i].phone = DigitsOf(leads'[i].phone)
       /\ \A p \in Workers :
             (/\ Leaves(p, "lead_get")
              /\ "phone" \in Cleaned(Payload(p))
              /\ \E i \in DOMAIN leads :
                    /\ leads[i].phone # Null
                    /\ DigitsOf(leads[i].phone) = DigitsOf(Payload(p).phone))
             => pc'[p] # "lead_create"]_vars

\* ------------------------------------------------------------------ fill-missing-only
\* A beacon of a request without User-Agent and without client address.
Bare == [BaseBeacon EXCEPT !.ua = Null, !.ip = Null]

\* Beacons of one session, one after another: at most one hint each, two
\* values per hint, and one beacon with two hints.
FillBeacons ==
    {Bare, With(Bare, "site_key", <<"j">>)}
    \cup {With(Bare, "client_id", v) : v \in {<<"c">>, <<"d">>}}
    \cup {With(Bare, "ua", v) : v \in {<<"u">>, <<"w">>}}
    \cup {With(Bare, "ip", v) : v \in {<<"9">>, <<"8">>}}
    \cup {With(Bare, "user_external_id", v) : v \in {<<"x">>, <<"y">>}}
    \cup {With(Bare, "user_name", v) : v \in {<<"N">>, <<"M">>}}
    \cup {[Bare EXCEPT !.client_id = <<"d">>, !.user_name = <<"N">>]}

NextFill ==
    \/ \E p \in Workers : \E b \in FillBeacons : Quiet /\ Arrive(p, Fresh(b))
    \/ \E p \in Workers : StepSerial(p)

SpecFill == Init /\ [][NextFill]_vars

\* The Session columns that are filled only when missing, each with the
\* beacon field it is filled from.
FillFields ==
    {<<"client_id", "client_id">>, <<"site_key", "site_key">>,
     <<"user_agent", "ua">>, <<"ip_address", "ip">>,
     <<"user_external_id", "user_external_id">>, <<"user_name", "user_name">>}

NormBeacons ==
    {BaseBeacon}
    \cup {[BaseBeacon EXCEPT !.top[f] = <<"t">>] : f \in {"url", "utm_source"}}
    \cup {[BaseBeacon EXCEPT !.event_data[k] = <<"n">>] :
            k \in {"meta_url", "utm_source", "other"}}
    \cup {[BaseBeacon EXCEPT !.top["url"] = <<"t">>, !.event_data["meta_url"] = <<"n">>]}
    \cup {[BaseBeacon EXCEPT !.event_data["meta_client_ts"] = t] :
            t \in {<<"1", "7">>, <<"1", "7", "Z">>, <<"x">>}}
    \cup {[BaseBeacon EXCEPT !.event_data["meta_vw"] = <<"8">>]}
    \cup {[BaseBeacon EXCEPT !.event_data["meta_sw"] = <<"8">>,
                             !.event_data["meta_dpr"] = <<"2">>]}
    \cup {[BaseBeacon EXCEPT !.event_data["meta_dpr"] = <<"2">>]}

NextNorm ==
    \/ \E p \in Workers : \E b \in NormBeacons : Quiet /\ Arrive(p, Fresh(b))
    \/ \E p \in Workers : StepSerial(p)

SpecNorm == Init /\ [][NextNorm]_vars

\* The worker p stores an Event in this step.
Stores(p) == Leaves(p, "event_create") /\ Len(events') = Len(events) + 1

\* The keys of event_data that feed a page or UTM column of the Event (the
\* column has the name of the top-level key).
PageKeys == {k \in DOMAIN TopOf : TopOf[k] \notin {"viewport", "screen", "client_ts"}}

\* C21: for each page and UTM field (url, page_title, referrer, language,
\* tz_offset_min, utm_*) the stored Event holds the top-level value of the
\* payload when there is one, else the value nested in event_data, else null.
C21_NormalizerPrecedence ==
    [][\A p \in Workers :
          Stores(p)
          => \A k \in PageKeys :
                events'[Len(events')][TopOf[k]] =
                    IF Payload(p).top[TopOf[k]] # Null
                    THEN Payload(p).top[TopOf[k]]
                    ELSE Payload(p).event_data[k]]_vars

\* C23: a client timestamp that fails to parse is treated as absent: the
\* beacon is accepted without an error and its Event is stored with
\* client_ts null.
C23_BadClientTsIsAbsent ==
    [][\A p \in Workers :
          /\ (/\ Leaves(p, "validate")
              /\ IsValid(Payload(p))
              /\ Truthy(ClientTsStr(Payload(p)))
              /\ ~IsIso(ReplaceZ(ClientTsStr(Payload(p)))))
             => pc'[p] = "session_get"
          /\ (/\ Stores(p)
              /\ Truthy(ClientTsStr(Payload(p)))
              /\ ~IsIso(ReplaceZ(ClientTsStr(Payload(p)))))
             => events'[Len(events')].client_ts = Null]_vars

\* The viewport and screen keys of event_data, each with the Event column
\* and the place inside it that takes its value.
SizeSlot ==
    [meta_vw |-> <<"viewport", 1>>, meta_vh |-> <<"viewport", 2>>,
     meta_sw |-> <<"screen", 1>>, meta_sh |-> <<"screen", 2>>,
     meta_dpr |-> <<"screen", 3>>]

\* C29: no extracted value is lost: every non-null viewport or screen value
\* of event_data (meta_vw, meta_vh, meta_sw, meta_sh, meta_dpr) is in the
\* stored Event's viewport or screen column or still in its stored
\* event_data; so a beacon with meta_dpr and neither meta_sw nor meta_sh has
\* its dpr stored.
C29_NoValueLost ==
    [][\A p \in Workers :
          Stores(p)
          => \A k \in DOMAIN SizeSlot :
                LET v == Payload(p).event_data[k]
                    e == events'[Len(events')]
                    col == e[SizeSlot[k][1]]
                IN  v # Null
                    => \/ col # Null /\ col[SizeSlot[k][2]] = v
                       \/ e.event_data[k] = v]_vars

\* The Session row of the Event a worker is enriching.
EnrichedSession(p) == sessions[events[Head(pks[p])].session]

\* C22: when the Session of the Event has no location_data and a known
\* ip_address, the geo lookup is made (by a loaded reader) and the
\* location_data it stores names that ip_address as its source IP; when the
\* Session has no known IP no lookup is made and location_data stays unset.
C22_GeoUsesSessionIp ==
    [][\A p \in Workers :
          /\ (Leaves(p, "enrich_geo") /\ ~Truthy(EnrichedSession(p).location_data))
             => IF Truthy(EnrichedSession(p).ip_address)
                THEN geoip => pc'[p] = "geo_lookup"
                ELSE pc'[p] # "geo_lookup"
          /\ (/\ Leaves(p, "geo_lookup")
              /\ sessions'[sess[p].pk].location_data # sessions[sess[p].pk].location_data)
             => sessions'[sess[p].pk].location_data
                   = GeoData(sessions[sess[p].pk].ip_address)]_vars

\* C25: the geo step changes no Event; a lookup that fails leaves the
\* Session as it is, so every run that finds location_data unset (and the
\* reader loaded) makes the lookup again; a lookup that succeeds sets
\* location_data, and a run that finds location_data set makes no lookup and
\* changes nothing.
C25_GeoRetry ==
    [][\A p \in Workers :
          /\ Leaves(p, "enrich_geo")
             => /\ sessions' = sessions
                /\ events' = events
                /\ (pc'[p] = "geo_lookup")
                      <=> (~Truthy(EnrichedSession(p).location_data) /\ geoip)
          /\ Leaves(p, "geo_lookup")
             => /\ events' = events
                /\ \/ sessions' = sessions
                   \/ /\ Truthy(sessions'[sess[p].pk].location_data)
                      /\ ~Truthy(sessions[sess[p].pk].location_data)]_vars

\* A run of the task makes the lookup for the one stored Event after the
\* request that stored it was answered: the lookup of that request failed.
C25_Witness ==
    \E p \in Workers :
        /\ pc[p] = "geo_lookup"
        /\ batch[p] = << >>
        /\ Len(events) = 1
        /\ \A q \in Workers \ {p} : pc[q] = "done" /\ result[q] = "204"

\* ------------------------------------------------------------------ beacons without lead hints
\* Beacons without a lead hint, with blank hints only, and with an email.
NoHintBeacons ==
    {BaseBeacon, With(BaseBeacon, "email", Blank),
     [BaseBeacon EXCEPT !.first_name = Blank, !.phone = Blank],
     With(BaseBeacon, "email", EmailA)}

NextNoHint ==
    \/ \E p \in Workers : \E b \in NoHintBeacons : Arrive(p, Fresh(b))
    \/ \E p \in Workers : StepNoAddress(p)

SpecNoHint == Init /\ [][NextNoHint]_vars

\* C24: a beacon with no lead hint, or with blank ones only, gets a null
\* lead: no step of its request creates or modifies a Lead row, and its
\* Event is stored with lead = null.
C24_NoHintNoLead ==
    [][\A p \in Workers :
          (/\ pc[p] \notin {"idle", "done"}
           /\ pc'[p] # pc[p]
           /\ batch[p] # << >>
           /\ Cleaned(Payload(p)) = {})
          => /\ leads' = leads
             /\ Stores(p) => events'[Len(events')].lead = 0]_vars

\* The Event of a beacon with a blank email is stored while a Lead exists.
C24_Witness ==
    \E p \in Workers :
        /\ pc[p] = "enrich_lead"
        /\ Payload(p).email = Blank
        /\ events[Head(pks[p])].lead = 0
        /\ leads # << >>

\* C26: the Event is persisted atomically with the resolution of its
\* Session and Lead: a beacon that stores no Event creates and modifies no
\* Session and no Lead.  A beacon whose event_id was stored when it was
\* submitted stores no Event (its insert fails), so no step of its request
\* changes a Session or Lead row.
C26_EventAtomic ==
    [][\A p \in Workers :
          (/\ pc[p] \notin {"idle", "done"}
           /\ pc'[p] # pc[p]
           /\ batch[p] # << >>
           /\ \E i \in 1..seen[p] : events[i].event_id = Payload(p).event_id)
          => sessions' = sessions /\ leads' = leads]_vars

\* C27: no lost update on the Session merge: when two beacons of one stored
\* session are processed at the same time and each brings another field
\* that is null so far, the Session holds both values afterwards; a column
\* that holds a value never goes back to null through another beacon's save.
C27_NoLostUpdate ==
    [][\A i \in DOMAIN sessions : \A f \in FillFields :
          Truthy(sessions[i][f[1]]) => Truthy(sessions'[i][f[1]])]_vars

\* The Leads whose property_address is the one of the beacon b, case ignored.
ByAddress(b) ==
    {i \in DOMAIN leads : IExact(leads[i].property_address, b.property_address)}

\* C28: two beacons with the same property_address and neither email nor
\* phone may each create a Lead when they overlap; every later beacon that
\* matches on that address alone, whether one Lead or two share it,
\* resolves to one of them and goes on to store its Event.
C28_AddressRace ==
    [][\A p \in Workers :
          (/\ Leaves(p, "lead_get")
           /\ Cleaned(Payload(p)) = {"property_address"}
           /\ ByAddress(Payload(p)) # {})
          => /\ pc'[p] = "lead_save"
             /\ lead'[p].pk \in ByAddress(Payload(p))]_vars

====
